---------------------------- MODULE Spec2Model ----------------------------
(***************************************************************************)
(* unity_git_compress: conversion of project directories into git          *)
(* repositories (utils_git.init_and_commit_project), their cloning         *)
(* (utils_git.clone_project) and the batch orchestrator                     *)
(* (batch_convert_unity_projects_v2.main / process_single_project).        *)
(*                                                                         *)
(* The external world (git, the filesystem) is modelled by what the code   *)
(* observes of it: every git invocation exits 0 ("ok"), exits non-zero     *)
(* ("fail", subprocess.CalledProcessError, which run_git_command catches)  *)
(* or cannot be launched ("raise", FileNotFoundError, which nothing        *)
(* catches); every filesystem write succeeds or raises OSError.            *)
(***************************************************************************)
EXTENDS Naturals, Sequences, FiniteSets

(***************************************************************************)
(* Bounds of the model.                                                    *)
(***************************************************************************)
\* convert runs in succession on one project (SpecConvert)
MaxRuns == 2

\* clone_project calls in succession on one output path (SpecClone)
MaxCalls == 2

\* files a pre-existing output directory may hold
MaxPriorFiles == 2

\* entries of the --blacklist argument (SpecBatch)
MaxBlacklistEntries == 2

\* value of --workers (SpecBatch)
MaxWorkers == 2

(***************************************************************************)
(* Texts.  None is Python's None; a template text is falsy when it is None *)
(* or the empty string (utils_git.py:88, batch:173).                       *)
(***************************************************************************)
None == "<None>"

NoContent == "<no file>"

Templates == {"", "T1", "T2"}

Falsy(text) == text = None \/ text = ""

(***************************************************************************)
(* A project directory as the code and git see it.                         *)
(*   git      : ".git" is absent, a directory, or a file (the gitfile of a *)
(*              worktree or submodule checkout)                            *)
(*   ignore   : ".gitignore" is absent, a regular file, or a directory     *)
(*   content  : the text of ".gitignore" when it is a file                 *)
(*   hasFiles : the directory holds files other than ".gitignore"          *)
(*   staged   : what the index holds that HEAD does not                    *)
(*   committed: what HEAD holds                                            *)
(***************************************************************************)
Tracked == {"ignore", "files"}

ProjectStates ==
    { p \in [git : {"absent", "file", "dir"},
             ignore : {"absent", "file", "dir"},
             content : {NoContent, "T1", "OLD"},
             hasFiles : BOOLEAN,
             staged : SUBSET Tracked,
             committed : SUBSET Tracked] :
        /\ (p.ignore = "file") <=> (p.content # NoContent)
        /\ (p.git = "absent") => (p.staged = {} /\ p.committed = {}) }

\* utils_git.py:38-41
is_git_repo(p) == p.git = "dir"

\* has_gitignore testing is_dir() instead of is_file(): an ignore file is never seen.
has_gitignore_is_dir(p) == p.ignore = "dir"

\* has_gitignore asking git: the ignore file counts once HEAD holds it.
has_gitignore_committed(p) == p.ignore = "file" /\ "ignore" \in p.committed

\* utils_git.py:43-46
has_gitignore(p) == p.ignore = "file"

(***************************************************************************)
(* The steps of a conversion, in the vocabulary of the operation log.      *)
(***************************************************************************)
Steps == {"init", "write", "add_ignore", "commit_ignore", "add_all", "commit_all"}

Outcomes == {"ok", "fail", "raise"}

\* What the environment answers to each step of one run.  A run stops at
\* its first step that does not succeed, so at most one step is drawn as
\* not "ok"; write_text has no "fail": it returns or raises.
OutcomeVectors ==
    { oc \in [Steps -> Outcomes] :
        /\ oc["write"] # "fail"
        /\ Cardinality({s \in Steps : oc[s] # "ok"}) <= 1 }

\* The result of a step on project p when the environment answers o:
\* write_text on a directory raises IsADirectoryError; git commit with an
\* empty index exits 1 ("nothing to commit").
StepResult(p, s, o) ==
    CASE s = "write" /\ p.ignore = "dir" -> "raise"
      [] s \in {"commit_ignore", "commit_all"} /\ o = "ok" /\ p.staged = {} -> "fail"
      [] OTHER -> o

\* The write creating the ignore file only where there is none: the text of
\* an ignore file already there is kept.
StepEffect_write_keeps(p, text, s) ==
    CASE s = "init" -> [p EXCEPT !.git = IF @ = "absent" THEN "dir" ELSE @]
      [] s = "write" ->
            IF p.ignore = "file" THEN p
            ELSE [p EXCEPT !.ignore = "file", !.content = text]
      [] s = "add_ignore" -> [p EXCEPT !.staged = @ \cup {"ignore"}]
      [] s = "add_all" ->
            [p EXCEPT !.staged = @ \cup (IF p.hasFiles THEN {"files"} ELSE {})]
      [] OTHER -> [p EXCEPT !.committed = @ \cup p.staged, !.staged = {}]

\* The effect of a successful step.
StepEffect(p, text, s) ==
    CASE s = "init" -> [p EXCEPT !.git = IF @ = "absent" THEN "dir" ELSE @]
      [] s = "write" -> [p EXCEPT !.ignore = "file", !.content = text]
      [] s = "add_ignore" -> [p EXCEPT !.staged = @ \cup {"ignore"}]
      [] s = "add_all" ->
            [p EXCEPT !.staged = @ \cup (IF p.hasFiles THEN {"files"} ELSE {})]
      [] OTHER -> [p EXCEPT !.committed = @ \cup p.staged, !.staged = {}]

\* The message returned when step s exits non-zero.
FailMessage(s) ==
    CASE s = "init" -> "Failed to initialize git"
      [] s = "add_ignore" -> "Failed to add .gitignore"
      [] s = "commit_ignore" -> "Failed to commit .gitignore"
      [] s = "add_all" -> "Failed to add files"
      [] s = "commit_all" -> "Failed to commit files"
      [] OTHER -> "uncaught exception"

\* The two step sequences of init_and_commit_project.
\* "git add ." in the place of "git add .gitignore".
AddIgnoreSteps_add_all == <<"write", "add_all", "commit_ignore">>

AddIgnoreSteps == <<"write", "add_ignore", "commit_ignore">>

\* The ignore file staged before it is written.
InitSteps_add_before_write ==
    <<"init", "add_ignore", "write", "commit_ignore", "add_all", "commit_all">>

InitSteps == <<"init", "write", "add_ignore", "commit_ignore", "add_all", "commit_all">>

Return(p, status, msg, ops) ==
    [proj |-> p, status |-> status, msg |-> msg, ops |-> ops]

RECURSIVE RunSteps(_, _, _, _, _, _)
\* Runs the steps in order; the first step that does not succeed ends the
\* run: a non-zero exit returns (False, message), an exception propagates.
RunSteps(p, text, oc, steps, ops, okMsg) ==
    IF steps = <<>> THEN Return(p, "ok", okMsg, ops)
    ELSE LET s == Head(steps)
             r == StepResult(p, s, oc[s])
             done == Append(ops, s)
         IN  IF r = "ok"
             THEN RunSteps(StepEffect(p, text, s), text, oc, Tail(steps), done, okMsg)
             ELSE IF r = "fail"
             THEN Return(p, "fail", FailMessage(s), done)
             ELSE Return(p, "raise", "uncaught exception", done)

\* The project classified before the template text is looked at: a repository
\* with an ignore file is reported as already initialized whatever the text.
init_and_commit_project_classify_first(p, text, oc) ==
    IF is_git_repo(p) /\ has_gitignore(p)
    THEN Return(p, "ok", "already initialized", <<>>)
    ELSE IF Falsy(text) THEN Return(p, "fail", "Gitignore content is empty.", <<>>)
    ELSE IF is_git_repo(p)
    THEN RunSteps(p, text, oc, AddIgnoreSteps, <<>>, "Added .gitignore")
    ELSE RunSteps(p, text, oc, InitSteps, <<>>, "Git repository initialized")

\* utils_git.py:66-145
init_and_commit_project(p, text, oc) ==
    IF Falsy(text) THEN Return(p, "fail", "Gitignore content is empty.", <<>>)
    ELSE IF is_git_repo(p)
    THEN IF has_gitignore(p)
         THEN Return(p, "ok", "already initialized", <<>>)
         ELSE RunSteps(p, text, oc, AddIgnoreSteps, <<>>, "Added .gitignore")
    ELSE RunSteps(p, text, oc, InitSteps, <<>>, "Git repository initialized")

(***************************************************************************)
(* An output path as clone_project sees it.                                *)
(*   kind   : the path is absent, a regular file, a directory, or a        *)
(*            symbolic link to a directory ("link")                        *)
(*   files  : the files of the prior directory (of the link's target)      *)
(*            still there                                                  *)
(*   cloned : the path holds a clone made by git clone                     *)
(*   parent : the parent of the path is absent, a directory or a file      *)
(***************************************************************************)
PriorFiles == 1..MaxPriorFiles

OutputStates ==
    { o \in [kind : {"absent", "file", "dir", "link"},
             files : SUBSET PriorFiles,
             cloned : BOOLEAN,
             parent : {"absent", "dir", "file"}] :
        /\ (o.kind \in {"absent", "file"}) => (o.files = {})
        /\ (o.kind # "absent") => (o.parent = "dir")
        /\ o.cloned => (o.kind = "dir") }

\* Path.exists() follows symbolic links (utils_git.py:173, batch:116).
Exists(o) == o.kind # "absent"

\* What the environment answers to the steps of one clone_project call:
\* shutil.rmtree returns or raises, having removed all but `left`;
\* mkdir returns or raises; git clone exits 0, exits non-zero or cannot
\* be launched.
CloneOutcomes ==
    [rmtree : {"ok", "raise"}, left : SUBSET PriorFiles,
     mkdir : {"ok", "raise"}, clone : Outcomes]

\* shutil.rmtree(output_path): raises NotADirectoryError on a regular file
\* and OSError on a symbolic link, removing nothing; on a directory it
\* removes everything, or raises part way.
RmtreeResult(o, oc) == IF o.kind = "dir" THEN oc.rmtree ELSE "raise"

RmtreeEffect(o, oc) ==
    IF o.kind # "dir" THEN o
    ELSE IF oc.rmtree = "ok"
    THEN [o EXCEPT !.kind = "absent", !.files = {}, !.cloned = FALSE]
    ELSE [o EXCEPT !.files = @ \cap oc.left]

\* output_path.parent.mkdir(parents=True, exist_ok=True)
MkdirResult(o, oc) ==
    CASE o.parent = "dir" -> "ok"
      [] o.parent = "file" -> "raise"
      [] OTHER -> oc.mkdir

MkdirEffect(o) == [o EXCEPT !.parent = "dir"]

\* git clone <project> <output>: refuses a path that exists and is not an
\* empty directory.
GitCloneResult(o, oc) ==
    IF oc.clone = "ok" /\ ~(o.kind = "absent" \/ (o.kind = "dir" /\ o.files = {} /\ ~o.cloned))
    THEN "fail" ELSE oc.clone

GitCloneEffect(o) == [o EXCEPT !.kind = "dir", !.cloned = TRUE]

CloneReturn(o, status, msg, ops) ==
    [out |-> o, status |-> status, msg |-> msg, ops |-> ops]

\* utils_git.py:180-195: the parent directory, then git clone.
MkdirAndClone(o, oc, ops) ==
    IF MkdirResult(o, oc) = "raise"
    THEN CloneReturn(o, "raise", "uncaught exception", Append(ops, "mkdir"))
    ELSE LET o1 == MkdirEffect(o)
             r == GitCloneResult(o1, oc)
             done == ops \o <<"mkdir", "clone">>
         IN  CASE r = "ok" ->
                    CloneReturn(GitCloneEffect(o1), "ok", "Successfully cloned", done)
               [] r = "fail" -> CloneReturn(o1, "fail", "Failed to clone", done)
               [] OTHER -> CloneReturn(o1, "raise", "uncaught exception", done)

\* clone_project with the force test lost: an existing path is always removed.
clone_project_always_removes(p, o, force, oc) ==
    IF ~is_git_repo(p)
    THEN CloneReturn(o, "fail", "is not a git repository", <<>>)
    ELSE IF Exists(o)
    THEN IF RmtreeResult(o, oc) = "raise"
         THEN CloneReturn(RmtreeEffect(o, oc), "raise", "uncaught exception",
                          <<"rmtree">>)
         ELSE MkdirAndClone(RmtreeEffect(o, oc), oc, <<"rmtree">>)
    ELSE MkdirAndClone(o, oc, <<>>)

\* clone_project with the removal lost: force only skips the refusal.
clone_project_never_removes(p, o, force, oc) ==
    IF ~is_git_repo(p)
    THEN CloneReturn(o, "fail", "is not a git repository", <<>>)
    ELSE IF Exists(o) /\ ~force
    THEN CloneReturn(o, "fail", "Output path already exists", <<>>)
    ELSE MkdirAndClone(o, oc, <<>>)

\* clone_project looking at the source only after the output path was dealt
\* with: the caller is trusted until git clone is about to be invoked.
clone_project_trusts_caller(p, o, force, oc) ==
    IF Exists(o) /\ ~force
    THEN CloneReturn(o, "fail", "Output path already exists", <<>>)
    ELSE IF Exists(o) /\ RmtreeResult(o, oc) = "raise"
    THEN CloneReturn(RmtreeEffect(o, oc), "raise", "uncaught exception", <<"rmtree">>)
    ELSE LET o1 == IF Exists(o) THEN RmtreeEffect(o, oc) ELSE o
             ops == IF Exists(o) THEN <<"rmtree">> ELSE <<>>
         IN  IF MkdirResult(o1, oc) = "raise"
             THEN CloneReturn(o1, "raise", "uncaught exception", Append(ops, "mkdir"))
             ELSE IF ~is_git_repo(p)
             THEN CloneReturn(MkdirEffect(o1), "fail", "is not a git repository",
                              Append(ops, "mkdir"))
             ELSE MkdirAndClone(o1, oc, ops)

\* utils_git.py:147-195
clone_project(p, o, force, oc) ==
    IF ~is_git_repo(p)
    THEN CloneReturn(o, "fail", "is not a git repository", <<>>)
    ELSE IF Exists(o)
    THEN IF ~force
         THEN CloneReturn(o, "fail", "Output path already exists", <<>>)
         ELSE IF RmtreeResult(o, oc) = "raise"
              THEN CloneReturn(RmtreeEffect(o, oc), "raise", "uncaught exception",
                               <<"rmtree">>)
              ELSE MkdirAndClone(RmtreeEffect(o, oc), oc, <<"rmtree">>)
    ELSE MkdirAndClone(o, oc, <<>>)

(***************************************************************************)
(* Strings the code takes apart are sequences of characters.               *)
(***************************************************************************)
IsSpace(c) == c = " "

RECURSIVE lstrip(_)
lstrip(str) == IF str # <<>> /\ IsSpace(Head(str)) THEN lstrip(Tail(str)) ELSE str

RECURSIVE rstrip(_)
rstrip(str) ==
    IF str # <<>> /\ IsSpace(str[Len(str)])
    THEN rstrip(SubSeq(str, 1, Len(str) - 1)) ELSE str

\* str.strip()
strip(str) == rstrip(lstrip(str))

RECURSIVE split(_, _)
\* str.split(","): the pieces between the separators, empty pieces kept.
split(str, cur) ==
    IF str = <<>> THEN <<cur>>
    ELSE IF Head(str) = "," THEN <<cur>> \o split(Tail(str), <<>>)
    ELSE split(Tail(str), Append(cur, Head(str)))

\* batch:141-146
ParseBlacklist(raw) ==
    LET blacklist_str == strip(raw)
    IN  IF blacklist_str # <<>>
        THEN SelectSeq(split(blacklist_str, <<>>), LAMBDA x : strip(x) # <<>>)
        ELSE <<>>

\* is_in_blacklist without the strip: the entry is compared as written.
is_in_blacklist_unstripped(project_name, blacklist_list) ==
    \E i \in DOMAIN blacklist_list : project_name = blacklist_list[i]

\* batch:73-77
is_in_blacklist(project_name, blacklist_list) ==
    \E i \in DOMAIN blacklist_list : project_name = strip(blacklist_list[i])

\* The names an entry of projects_dir may have, and the characters of a
\* --blacklist argument.
NamePool == {<<"A">>, <<"B">>}

\* The --blacklist arguments: up to MaxBlacklistEntries entries joined by
\* commas, each entry empty or the name "A", bare or with a blank before or
\* after it.
BlacklistEntries == {<<>>, <<"A">>, <<" ", "A">>, <<"A", " ">>}

RECURSIVE JoinedUpTo(_)
JoinedUpTo(n) ==
    IF n = 0 THEN {<<>>}
    ELSE LET shorter == JoinedUpTo(n - 1)
         IN  shorter \cup BlacklistEntries
                     \cup {raw \o <<",">> \o e : raw \in shorter, e \in BlacklistEntries}

RawBlacklists == JoinedUpTo(MaxBlacklistEntries)

(***************************************************************************)
(* process_single_project (batch:79-129), step by step.  A task is at      *)
(*   "idle"      not handed to a worker yet                                *)
(*   "pending"   handed to a worker, before the blacklist check            *)
(*   "eligible"  past the blacklist check, before convert                  *)
(*   "convert_ok" convert returned success, before the output check        *)
(*   "cloning"   the output path did not exist, before clone_project       *)
(* or at one of the ends: the four that return an outcome, and "raised"    *)
(* when an exception left the function.                                    *)
(***************************************************************************)
TaskReturns == {"skipped_blacklist", "convert_failed", "skipped_exists",
                "clone_failed", "done"}

TaskEnds == TaskReturns \cup {"raised"}

\* The success flag of the outcome (project_name, success).
Success(pc) == pc = "done"

\* batch:95-97
AfterBlacklist(listed) == IF listed THEN "skipped_blacklist" ELSE "eligible"

\* batch:104-109
AfterConvert(status) ==
    CASE status = "ok" -> "convert_ok"
      [] status = "fail" -> "convert_failed"
      [] OTHER -> "raised"

\* The output check lost: clone_project is called whatever is there.
AfterOutputCheck_unchecked(exists) == "cloning"

\* batch:116-118
AfterOutputCheck(exists) == IF exists THEN "skipped_exists" ELSE "cloning"

\* The result of clone_project ignored: the project is reported done.
AfterClone_ignored(status) == IF status = "raise" THEN "raised" ELSE "done"

\* batch:122-129
AfterClone(status) ==
    CASE status = "ok" -> "done"
      [] status = "fail" -> "clone_failed"
      [] OTHER -> "raised"

(***************************************************************************)
(* The batch orchestrator's world (SpecBatch).                             *)
(*   projectsDir : --projects_dir is absent, a file or a directory         *)
(*   layout      : --output_dir is another directory ("disjoint"), the     *)
(*                 projects directory itself ("same"), or the entry        *)
(*                 NestHost of the projects directory ("inside")           *)
(*   outDir      : --output_dir is absent, a file or a directory           *)
(*   cache       : the template cache directory "frequently_used" exists   *)
(*   entries     : what projects_dir holds under each name                 *)
(*   projs       : the project directory of each name                      *)
(*   outs        : the path output_dir/name of each name                   *)
(***************************************************************************)
Fresh ==
    [git |-> "absent", ignore |-> "absent", content |-> NoContent,
     hasFiles |-> TRUE, staged |-> {}, committed |-> {}]

RepoNoIgnore ==
    [git |-> "dir", ignore |-> "absent", content |-> NoContent,
     hasFiles |-> TRUE, staged |-> {}, committed |-> {"files"}]

Converted ==
    [git |-> "dir", ignore |-> "file", content |-> "T1",
     hasFiles |-> TRUE, staged |-> {}, committed |-> {"ignore", "files"}]

Checkout ==
    [git |-> "file", ignore |-> "absent", content |-> NoContent,
     hasFiles |-> TRUE, staged |-> {}, committed |-> {"files"}]

\* A directory just created: nothing in it.
EmptyDir ==
    [git |-> "absent", ignore |-> "absent", content |-> NoContent,
     hasFiles |-> FALSE, staged |-> {}, committed |-> {}]

\* The project directories a batch starts from.
BatchProjects == {Fresh, RepoNoIgnore, Converted, Checkout}

IdleOutput == [kind |-> "absent", files |-> {}, cloned |-> FALSE, parent |-> "dir"]

\* The output paths a batch starts from, under an output directory that exists.
BatchOutputs ==
    {IdleOutput,
     [kind |-> "dir", files |-> {1}, cloned |-> FALSE, parent |-> "dir"]}

\* The entry of projects_dir that --output_dir names in the layout "inside".
NestHost == <<"A">>

\* A world in which what cannot be observed is left out: a projects_dir that
\* is no directory has no entries, only a directory entry has a project
\* state, only an output directory that exists (and is not projects_dir)
\* has something under it.
Normalized(w) ==
    LET od == CASE w.layout = "same" -> w.projectsDir
                [] w.layout = "inside" ->
                     IF w.projectsDir # "dir" \/ w.entries[NestHost] = "none"
                     THEN "absent" ELSE w.entries[NestHost]
                [] OTHER -> w.outDir
        entries == [n \in NamePool |->
                      IF w.projectsDir = "dir" THEN w.entries[n] ELSE "none"]
    IN  [w EXCEPT
           !.outDir = od,
           !.entries = entries,
           !.projs = [n \in NamePool |-> IF entries[n] = "dir" THEN @[n] ELSE Fresh],
           !.outs = [n \in NamePool |->
                       IF w.layout # "same" /\ od = "dir" THEN @[n]
                       ELSE [IdleOutput EXCEPT !.parent =
                                IF w.layout = "same" THEN "dir" ELSE od]]]

BatchWorlds ==
    { Normalized(w) :
        w \in [projectsDir : {"absent", "file", "dir"},
               layout : {"disjoint", "same"},
               outDir : {"absent", "file", "dir"},
               cache : BOOLEAN,
               entries : [NamePool -> {"none", "file", "dir"}],
               projs : [NamePool -> BatchProjects],
               outs : [NamePool -> BatchOutputs]] }

\* The worlds in which --output_dir is the entry NestHost of a projects
\* directory.
NestedWorlds ==
    { Normalized(w) :
        w \in [projectsDir : {"dir"},
               layout : {"inside"},
               outDir : {"absent"},
               cache : {FALSE},
               entries : [NamePool -> {"none", "file", "dir"}],
               projs : [NamePool -> BatchProjects],
               outs : [NamePool -> BatchOutputs]] }

\* Paths: projects_dir/name, and output_dir/name (batch:112).
ProjectsDirPath == <<"P">>

ProjectPath(n) == Append(ProjectsDirPath, n)

OutputDirPath(w) ==
    CASE w.layout = "same" -> ProjectsDirPath
      [] w.layout = "inside" -> ProjectPath(NestHost)
      [] OTHER -> <<"O">>

\* The clone target named after one project whatever the project.
TargetPath_stale_name(w, n) == Append(OutputDirPath(w), NestHost)

TargetPath(w, n) == Append(OutputDirPath(w), n)

\* What stands at output_dir/name: the project directory itself when
\* output_dir is projects_dir.
TargetState(w, n) ==
    IF w.layout = "same"
    THEN IF w.entries[n] = "none" THEN IdleOutput
         ELSE [kind |-> w.entries[n], files |-> {}, cloned |-> FALSE, parent |-> "dir"]
    ELSE w.outs[n]

\* What fetch_gitignore may return (gitignore_fetcher.py:18, 23, 47, 49, 52).
FetchResults == {None, "", "T1"}

\* The test made with exists() instead of is_dir(): a file passes.
ValidProjectsDir_exists(kind) == kind # "absent"

\* batch:152
ValidProjectsDir(kind) == kind = "dir"

\* The template test reduced to "is None": an empty text passes.
Unresolved_none_only(content) == content = None

\* batch:173
Unresolved(content) == Falsy(content)

\* batch:120: clone_project is called without force, which defaults to False
\* (utils_git.py:147).
BatchForce == FALSE

\* What the environment answers during a batch.  A conversion is made to
\* fail at its first step, at the write or at the commit of the ignore file;
\* clone_project, called without force, never reaches rmtree.
BatchFailSteps == {"init", "write", "commit_ignore"}

BatchOutcomeVectors ==
    {oc \in OutcomeVectors : \A s \in Steps \ BatchFailSteps : oc[s] = "ok"}

BatchCloneOutcomes ==
    {oc \in CloneOutcomes : oc.rmtree = "ok" /\ oc.left = {}}

RECURSIVE Orders(_)
\* The orders in which iterdir() may list a set of names.
Orders(names) ==
    IF names = {} THEN {<<>>}
    ELSE UNION {{<<n>> \o rest : rest \in Orders(names \ {n})} : n \in names}

(***************************************************************************)
(* gitignore_fetcher.fetch_gitignore.  File names, type tags and template  *)
(* names are sequences of characters; ".g" stands for the extension        *)
(* ".gitignore" and ".G" for the same in capitals.                         *)
(*   cache entry : kind  the entry is a regular file or a directory        *)
(*                 read  read_text returns the text, raises OSError, or    *)
(*                       raises UnicodeDecodeError ("decode")              *)
(***************************************************************************)
\* str.lower(), character by character.
Lower(c) ==
    CASE c = "A" -> "a"
      [] c = "G" -> "g"
      [] OTHER -> c

lower(str) == [i \in DOMAIN str |-> Lower(str[i])]

Ext == <<".", "g">>

\* gitignore_fetcher.py:13
target_filename(project_type) == lower(project_type \o Ext)

\* The text of the cache file of that name, the source of the remote
\* template of that name, and None as values of one kind.
LocalText(name) == <<"local", name>>

RemoteSource(name) == <<"remote", name>>

NoTemplate == <<"None">>

FetchReturn(status, value, calls) ==
    [status |-> status, value |-> value, calls |-> calls]

RECURSIVE LocalLookup(_, _, _)
\* gitignore_fetcher.py:16-18: the first entry listed that is a file and
\* whose lowered name is the target is read.
LocalLookup(listing, cache, target) ==
    IF listing = <<>> THEN "nomatch"
    ELSE LET name == Head(listing)
         IN  IF cache[name].kind = "file" /\ lower(name) = target
             THEN cache[name].read
             ELSE LocalLookup(Tail(listing), cache, target)

RECURSIVE FirstMatch(_, _)
\* gitignore_fetcher.py:33-39: the first template of the catalog that
\* equals the tag once both are lowered; <<>> when there is none.
FirstMatch(available_templates, target_lower) ==
    IF available_templates = <<>> THEN <<>>
    ELSE IF lower(Head(available_templates)) = target_lower
    THEN Head(available_templates)
    ELSE FirstMatch(Tail(available_templates), target_lower)

RECURSIVE FirstListed(_, _, _)
\* The file LocalLookup reads, <<>> when it reads none.
FirstListed(listing, cache, target) ==
    IF listing = <<>> THEN <<>>
    ELSE IF cache[Head(listing)].kind = "file" /\ lower(Head(listing)) = target
    THEN Head(listing)
    ELSE FirstListed(Tail(listing), cache, target)

\* gitignore_fetcher.py:25-52: the two calls to the remote catalog.
\*   env.catalog, env.detail : the call succeeds, or raises a
\*       RequestException (connection error, non-success status)
\*   env.source : the template detail holds a 'source' field
RemoteLookup(project_type, catalog, env) ==
    IF env.catalog = "error" THEN FetchReturn("return", NoTemplate, <<"catalog">>)
    ELSE LET found_template == FirstMatch(catalog, lower(project_type))
         IN  IF found_template = <<>>
             THEN FetchReturn("return", NoTemplate, <<"catalog">>)
             ELSE IF env.detail = "error"
             THEN FetchReturn("return", NoTemplate, <<"catalog", "detail">>)
             ELSE FetchReturn("return",
                              IF env.source THEN RemoteSource(found_template) ELSE NoTemplate,
                              <<"catalog", "detail">>)

\* gitignore_fetcher.py:5-52.
\*   cacheKind : "frequently_used" is absent, a directory or a file
\*   env.mkdir : creating the directory succeeds or raises
\*   env.iter  : iterdir() lists the directory (in the order env.listing)
\*               or raises OSError
fetch_gitignore(project_type, try_fetch_from_github, cacheKind, cache, catalog, env) ==
    IF cacheKind = "file" \/ (cacheKind = "absent" /\ env.mkdir = "raise")
    THEN FetchReturn("raise", NoTemplate, <<>>)
    ELSE LET target == target_filename(project_type)
             local == IF env.iter = "oserror" THEN "oserror"
                      ELSE LocalLookup(env.listing, cache, target)
         IN  CASE local = "ok" ->
                    FetchReturn("return",
                                LocalText(FirstListed(env.listing, cache, target)), <<>>)
               [] local = "decode" -> FetchReturn("raise", NoTemplate, <<>>)
               [] OTHER ->
                    IF ~try_fetch_from_github
                    THEN FetchReturn("return", NoTemplate, <<>>)
                    ELSE RemoteLookup(project_type, catalog, env)

(***************************************************************************)
(* State.                                                                  *)
(*   project, template, runs : one project directory, the template text    *)
(*     and the record of the convert runs made on it so far (SpecConvert)  *)
(*   output, calls : one output path and the record of the clone_project   *)
(*     calls made on it so far, with `project` as their source (SpecClone) *)
(*   world   : the filesystem of a batch run (SpecBatch)                   *)
(*   initial : the filesystem the batch run started from                   *)
(*   args    : blacklist_list and workers (batch:142-146), with            *)
(*             `excluded`, the names that equal an entry of the            *)
(*             --blacklist argument once the entry is trimmed              *)
(*   main    : where main() is, gitignore_content, projects_to_process,    *)
(*             the exit code and the summary                               *)
(*   task    : where process_single_project is for each project, what      *)
(*             convert and clone_project returned to it, and the paths     *)
(*             its worker changed something at                             *)
(*   written : the paths a worker changed something at                     *)
(*   single  : one run of single_convert_unity_project (SpecSingle):       *)
(*             alias : a copy of utils_git.py can be imported under the    *)
(*                     name unity_git_utils                                *)
(*             dir   : --project_path is absent, a file or a directory     *)
(*             force : --force                                             *)
(*             tools : "ok" when every git invocation and filesystem call  *)
(*                     of the run succeeds, "any" otherwise                *)
(*             pre   : the project and the output path before the run      *)
(*             exit, error : the exit code, and the exception that ended   *)
(*                     the run, if any                                     *)
(*             ops   : the utils functions entered, in order               *)
(*   fetch   : one call of fetch_gitignore (SpecFetch): its arguments, the *)
(*             cache directory, the remote catalog, what the environment   *)
(*             answered (env) and the result                               *)
(***************************************************************************)
VARIABLES project, template, runs, output, calls,
          world, initial, args, main, task, written, single, fetch

vars == <<project, template, runs, output, calls,
          world, initial, args, main, task, written, single, fetch>>

batchVars == <<world, initial, args, main, task, written>>

unitVars == <<project, template, runs, output, calls, single, fetch>>

Unfetched == "<unfetched>"

IdleTask == [pc |-> "idle", convert |-> "none", clone |-> "none", wrote |-> {}]

\* summary holds the two numbers of the final log line once main is "done".
IdleMain ==
    [pc |-> "start", content |-> Unfetched, todo |-> <<>>, exit |-> "none",
     summary |-> [successful |-> 0, total |-> 0]]

IdleWorld ==
    [projectsDir |-> "absent", layout |-> "disjoint", outDir |-> "absent",
     cache |-> FALSE, entries |-> [n \in NamePool |-> "none"],
     projs |-> [n \in NamePool |-> Fresh],
     outs |-> [n \in NamePool |-> [IdleOutput EXCEPT !.parent = "absent"]]]

\* single_convert_unity_project not run.
IdleSingle ==
    [pc |-> "idle", alias |-> FALSE, dir |-> "dir", force |-> FALSE,
     tools |-> "ok", pre |-> [proj |-> Fresh, out |-> IdleOutput],
     exit |-> "none", error |-> "none", ops |-> <<>>]

\* What the environment answers when nothing goes wrong.
CalmEnv ==
    [mkdir |-> "ok", iter |-> "ok", listing |-> <<>>,
     catalog |-> "ok", detail |-> "ok", source |-> TRUE]

\* fetch_gitignore not called.
IdleFetch ==
    [pc |-> "idle", project_type |-> <<>>, allow |-> TRUE, cacheKind |-> "absent",
     cache |-> <<>>, catalog |-> <<>>, env |-> CalmEnv,
     result |-> FetchReturn("none", NoTemplate, <<>>)]

BatchIdle ==
    /\ world = IdleWorld
    /\ initial = IdleWorld
    /\ args = [blacklist_list |-> <<>>, workers |-> 1, excluded |-> {}]
    /\ main = IdleMain
    /\ task = [n \in NamePool |-> IdleTask]
    /\ written = {}

(***************************************************************************)
(* SpecConvert: convert is run again and again on one project directory    *)
(* with the same template text.                                            *)
(***************************************************************************)
InitConvert ==
    /\ project \in ProjectStates
    /\ template \in Templates
    /\ runs = <<>>
    /\ output = IdleOutput
    /\ calls = <<>>
    /\ single = IdleSingle
    /\ fetch = IdleFetch
    /\ BatchIdle

\* One call of init_and_commit_project(project, template).
ConvertRun ==
    /\ Len(runs) < MaxRuns
    /\ \E oc \in OutcomeVectors :
         LET r == init_and_commit_project(project, template, oc)
         IN  /\ project' = r.proj
             /\ runs' = Append(runs, [pre |-> project, post |-> r.proj,
                                      status |-> r.status, msg |-> r.msg,
                                      ops |-> r.ops])
    /\ UNCHANGED <<template, output, calls, single, fetch>>
    /\ UNCHANGED batchVars

NextConvert == ConvertRun

SpecConvert == InitConvert /\ [][NextConvert]_vars

(***************************************************************************)
(* SpecClone: clone_project is called again and again, with either value   *)
(* of force, from one source project onto one output path.                 *)
(***************************************************************************)
\* The source projects of SpecClone: clone_project reads only is_git_repo.
CloneSources ==
    { p \in ProjectStates : p.staged = {} /\ p.ignore # "dir" /\ p.content # "OLD" }

InitClone ==
    /\ project \in CloneSources
    /\ output \in {o \in OutputStates : ~o.cloned}
    /\ calls = <<>>
    /\ template = None
    /\ runs = <<>>
    /\ single = IdleSingle
    /\ fetch = IdleFetch
    /\ BatchIdle

\* One call of clone_project(project, output, force).
CloneRun ==
    /\ Len(calls) < MaxCalls
    /\ \E force \in BOOLEAN, oc \in CloneOutcomes :
         LET r == clone_project(project, output, force, oc)
         IN  /\ output' = r.out
             /\ calls' = Append(calls, [force |-> force, pre |-> output,
                                        post |-> r.out, status |-> r.status,
                                        msg |-> r.msg, ops |-> r.ops])
    /\ UNCHANGED <<project, template, runs, single, fetch>>
    /\ UNCHANGED batchVars

NextClone == CloneRun

SpecClone == InitClone /\ [][NextClone]_vars

(***************************************************************************)
(* SpecBatch: one run of batch_convert_unity_projects_v2.main().           *)
(***************************************************************************)
\* The state after parse_args and batch:139-146.
InitBatch ==
    /\ world \in BatchWorlds
    /\ initial = world
    /\ \E raw \in RawBlacklists, w \in 1..MaxWorkers :
         args = [blacklist_list |-> ParseBlacklist(raw), workers |-> w,
                 excluded |-> {n \in NamePool :
                                 \E i \in DOMAIN split(raw, <<>>) :
                                     n = strip(split(raw, <<>>)[i])}]
    /\ main = IdleMain
    /\ task = [n \in NamePool |-> IdleTask]
    /\ written = {}
    /\ project = Fresh
    /\ template = None
    /\ runs = <<>>
    /\ output = IdleOutput
    /\ calls = <<>>
    /\ single = IdleSingle
    /\ fetch = IdleFetch

Exit(code) == [main EXCEPT !.pc = "exit", !.exit = code]

\* An exception nothing catches ends the process with a traceback: exit code 1.
Crash == [main EXCEPT !.pc = "crashed", !.exit = 1]

\* batch:152-154
MainValidate ==
    /\ main.pc = "start"
    /\ main' = IF ValidProjectsDir(world.projectsDir)
               THEN [main EXCEPT !.pc = "mkdir"]
               ELSE Exit(1)
    /\ UNCHANGED <<world, initial, args, task, written>>
    /\ UNCHANGED unitVars

\* batch:157: output_dir.mkdir(parents=True, exist_ok=True) raises
\* FileExistsError on a file, and may raise OSError when it has to create.
MainMkdirOutput ==
    /\ main.pc = "mkdir"
    /\ \E o \in {"ok", "raise"} :
         LET r == CASE world.outDir = "dir" -> "ok"
                    [] world.outDir = "file" -> "raise"
                    [] OTHER -> o
         IN  IF r = "ok"
             THEN /\ world' = [world EXCEPT
                                 !.outDir = "dir",
                                 !.projectsDir = IF world.layout = "same" THEN "dir" ELSE @,
                                 !.entries = IF world.layout = "inside"
                                             THEN [@ EXCEPT ![NestHost] = "dir"] ELSE @,
                                 !.projs = IF world.layout = "inside"
                                              /\ world.entries[NestHost] # "dir"
                                           THEN [@ EXCEPT ![NestHost] = EmptyDir] ELSE @,
                                 !.outs = [n \in NamePool |-> [@[n] EXCEPT !.parent = "dir"]]]
                  /\ main' = [main EXCEPT !.pc = "fetch"]
             ELSE /\ main' = Crash
                  /\ UNCHANGED world
    /\ UNCHANGED <<initial, args, task, written>>
    /\ UNCHANGED unitVars

\* batch:171: fetch_gitignore creates the cache directory
\* (gitignore_fetcher.py:11) and returns a text or None.
MainFetch ==
    /\ main.pc = "fetch"
    /\ \E r \in FetchResults :
         main' = [main EXCEPT !.pc = "check", !.content = r]
    /\ world' = [world EXCEPT !.cache = TRUE]
    /\ UNCHANGED <<initial, args, task, written>>
    /\ UNCHANGED unitVars

\* batch:173-175
MainCheckTemplate ==
    /\ main.pc = "check"
    /\ main' = IF Unresolved(main.content)
               THEN Exit(1)
               ELSE [main EXCEPT !.pc = "enumerate"]
    /\ UNCHANGED <<world, initial, args, task, written>>
    /\ UNCHANGED unitVars

\* batch:184-191; iterdir() yields the entries in any order.
MainEnumerate ==
    /\ main.pc = "enumerate"
    /\ \E projects_to_process \in
            Orders({n \in NamePool :
                      /\ world.entries[n] = "dir"
                      /\ ~is_in_blacklist(n, args.blacklist_list)}) :
         main' = IF projects_to_process = <<>>
                 THEN [main EXCEPT !.pc = "exit", !.exit = 0]
                 ELSE [main EXCEPT !.pc = "pool", !.todo = projects_to_process]
    /\ UNCHANGED <<world, initial, args, task, written>>
    /\ UNCHANGED unitVars

\* The tasks in the hands of a worker process.
Running == {n \in NamePool : task[n].pc \notin TaskEnds \cup {"idle"}}

\* batch:206-207: Pool(processes=workers).map hands the tasks out in order,
\* one to each idle worker.
TaskStart(n) ==
    /\ main.pc = "pool"
    /\ \E i \in DOMAIN main.todo :
         /\ main.todo[i] = n
         /\ task[n].pc = "idle"
         /\ \A j \in 1..(i - 1) : task[main.todo[j]].pc # "idle"
    /\ Cardinality(Running) < args.workers
    /\ task' = [task EXCEPT ![n].pc = "pending"]
    /\ UNCHANGED <<world, initial, args, main, written>>
    /\ UNCHANGED unitVars

\* batch:94-97
TaskBlacklist(n) ==
    /\ task[n].pc = "pending"
    /\ task' = [task EXCEPT
                  ![n].pc = AfterBlacklist(is_in_blacklist(n, args.blacklist_list))]
    /\ UNCHANGED <<world, initial, args, main, written>>
    /\ UNCHANGED unitVars

\* batch:101-109
TaskConvert(n) ==
    /\ task[n].pc = "eligible"
    /\ \E oc \in BatchOutcomeVectors :
         LET r == init_and_commit_project(world.projs[n], main.content, oc)
         IN  /\ world' = [world EXCEPT !.projs[n] = r.proj]
             /\ task' = [task EXCEPT
                           ![n].pc = AfterConvert(r.status),
                           ![n].convert = r.status,
                           ![n].wrote = IF r.proj # world.projs[n]
                                        THEN @ \cup {ProjectPath(n)} ELSE @]
             /\ written' = IF r.proj # world.projs[n]
                           THEN written \cup {ProjectPath(n)} ELSE written
    /\ UNCHANGED <<initial, args, main>>
    /\ UNCHANGED unitVars

\* batch:112-118
TaskCheckOutput(n) ==
    /\ task[n].pc = "convert_ok"
    /\ task' = [task EXCEPT ![n].pc = AfterOutputCheck(Exists(TargetState(world, n)))]
    /\ UNCHANGED <<world, initial, args, main, written>>
    /\ UNCHANGED unitVars

\* batch:120-129
TaskClone(n) ==
    /\ task[n].pc = "cloning"
    /\ \E oc \in BatchCloneOutcomes :
         LET before == TargetState(world, n)
             r == clone_project(world.projs[n], before, BatchForce, oc)
         IN  /\ world' =
                   CASE world.layout = "same" -> world
                     [] world.layout = "inside" ->
                          [world EXCEPT
                             !.outs[n] = r.out,
                             !.projs[NestHost].hasFiles = @ \/ Exists(r.out)]
                     [] OTHER -> [world EXCEPT !.outs[n] = r.out]
             /\ task' = [task EXCEPT
                           ![n].pc = AfterClone(r.status),
                           ![n].clone = r.status,
                           ![n].wrote = IF r.out # before
                                        THEN @ \cup {TargetPath(world, n)} ELSE @]
             /\ written' = IF r.out # before
                           THEN written \cup {TargetPath(world, n)} ELSE written
    /\ UNCHANGED <<initial, args, main>>
    /\ UNCHANGED unitVars

\* batch:207-216: map returns when every task has ended, and raises the
\* exception of a task that raised; otherwise the summary is logged.
MainCollect ==
    /\ main.pc = "pool"
    /\ \A i \in DOMAIN main.todo : task[main.todo[i]].pc \in TaskEnds
    /\ main' = IF \E i \in DOMAIN main.todo : task[main.todo[i]].pc = "raised"
               THEN Crash
               ELSE [main EXCEPT
                       !.pc = "done", !.exit = 0,
                       !.summary = [successful |->
                                        Cardinality({i \in DOMAIN main.todo :
                                                       Success(task[main.todo[i]].pc)}),
                                    total |-> Len(main.todo)]]
    /\ UNCHANGED <<world, initial, args, task, written>>
    /\ UNCHANGED unitVars

NextBatch ==
    \/ MainValidate
    \/ MainMkdirOutput
    \/ MainFetch
    \/ MainCheckTemplate
    \/ MainEnumerate
    \/ \E n \in NamePool : TaskStart(n)
    \/ \E n \in NamePool : TaskBlacklist(n)
    \/ \E n \in NamePool : TaskConvert(n)
    \/ \E n \in NamePool : TaskCheckOutput(n)
    \/ \E n \in NamePool : TaskClone(n)
    \/ MainCollect

SpecBatch == InitBatch /\ [][NextBatch]_vars

\* SpecNested: the batch in every layout of the two directories, the
\* output directory inside the projects directory included.
NestedBlacklists == {raw \in RawBlacklists : Len(raw) <= 1}

InitNested ==
    /\ world \in BatchWorlds \cup NestedWorlds
    /\ world.projectsDir = "dir"
    /\ initial = world
    /\ \E raw \in NestedBlacklists, w \in 1..MaxWorkers :
         args = [blacklist_list |-> ParseBlacklist(raw), workers |-> w,
                 excluded |-> {n \in NamePool :
                                 \E i \in DOMAIN split(raw, <<>>) :
                                     n = strip(split(raw, <<>>)[i])}]
    /\ main = IdleMain
    /\ task = [n \in NamePool |-> IdleTask]
    /\ written = {}
    /\ project = Fresh
    /\ template = None
    /\ runs = <<>>
    /\ output = IdleOutput
    /\ calls = <<>>
    /\ single = IdleSingle
    /\ fetch = IdleFetch

SpecNested == InitNested /\ [][NextBatch]_vars

\* The steps of main, and those of the worker that holds project n.
MainStep ==
    \/ MainValidate
    \/ MainMkdirOutput
    \/ MainFetch
    \/ MainCheckTemplate
    \/ MainEnumerate
    \/ MainCollect

WorkerStep(n) ==
    \/ TaskStart(n)
    \/ TaskBlacklist(n)
    \/ TaskConvert(n)
    \/ TaskCheckOutput(n)
    \/ TaskClone(n)

\* SpecBatchFair: the batch when every call returns or raises: main and
\* the worker processes are scheduled by the operating system, none is
\* held back forever, and no call made in a step hangs.
SpecBatchFair ==
    /\ SpecBatch
    /\ WF_vars(MainStep)
    /\ \A n \in NamePool : WF_vars(WorkerStep(n))

(***************************************************************************)
(* SpecSingle: one run of single_convert_unity_project.main() on           *)
(* `project` and `output`.                                                 *)
(***************************************************************************)
\* The modules of the repository.
RepoModules ==
    {"utils_git", "gitignore_fetcher", "get_all_dir_names",
     "batch_convert_unity_projects_v2", "single_convert_unity_project"}

\* single:23: import unity_git_utils as utils
SingleUtilsModule == "unity_git_utils"

\* The import finds a module of the repository, or a copy of utils_git.py
\* the environment holds under the imported name.
Importable(name, alias) == name \in RepoModules \/ alias

\* utils_git.py:66-70: the parameters of init_and_commit_project that have
\* no default.
InitAndCommitRequired == {"project_path", "gitignore_content"}

\* single:91: init_and_commit_project(project_path, verbose_logger=logger)
SingleConvertArgs == {"project_path", "verbose_logger"}

\* A call binds when every parameter without default is given; Python
\* raises TypeError otherwise, before the body runs.
CallBinds(required, given) == required \subseteq given

SingleReturn(p, o, exit, error, ops) ==
    [proj |-> p, out |-> o, exit |-> exit, error |-> error, ops |-> ops]

\* single:20-29 and 61-115.  An uncaught exception ends the process with a
\* traceback and exit code 1.
single_main(alias, dir, p, o, force, text, oc, coc) ==
    IF ~Importable(SingleUtilsModule, alias)
    THEN SingleReturn(p, o, 1, "ModuleNotFoundError", <<>>)
    ELSE IF dir # "dir"
    THEN SingleReturn(p, o, 1, "none", <<>>)
    ELSE IF ~CallBinds(InitAndCommitRequired, SingleConvertArgs)
    THEN SingleReturn(p, o, 1, "TypeError", <<>>)
    ELSE LET r == init_and_commit_project(p, text, oc)
         IN  IF r.status = "raise"
             THEN SingleReturn(r.proj, o, 1, "uncaught", <<"convert">>)
             ELSE IF r.status = "fail"
             THEN SingleReturn(r.proj, o, 1, "none", <<"convert">>)
             ELSE LET c == clone_project(r.proj, o, force, coc)
                  IN  SingleReturn(r.proj, c.out,
                                   IF c.status = "ok" THEN 0 ELSE 1,
                                   IF c.status = "raise" THEN "uncaught" ELSE "none",
                                   <<"convert", "clone">>)

InitSingle ==
    /\ project \in BatchProjects
    /\ output \in {o \in OutputStates : ~o.cloned}
    /\ template = "T1"
    /\ runs = <<>>
    /\ calls = <<>>
    /\ \E alias \in BOOLEAN, dir \in {"absent", "file", "dir"}, force \in BOOLEAN,
          tools \in {"ok", "any"} :
         single = [IdleSingle EXCEPT !.pc = "start", !.alias = alias, !.dir = dir,
                                     !.force = force, !.tools = tools]
    /\ fetch = IdleFetch
    /\ BatchIdle

\* The whole run.
SingleRun ==
    /\ single.pc = "start"
    /\ \E oc \in OutcomeVectors, coc \in CloneOutcomes :
         /\ single.tools = "ok" =>
               /\ \A s \in Steps : oc[s] = "ok"
               /\ coc.rmtree = "ok" /\ coc.mkdir = "ok" /\ coc.clone = "ok"
         /\ LET r == single_main(single.alias, single.dir, project, output,
                                 single.force, template, oc, coc)
            IN  /\ project' = r.proj
                /\ output' = r.out
                /\ single' = [single EXCEPT
                                !.pc = "ended", !.exit = r.exit, !.error = r.error,
                                !.ops = r.ops,
                                !.pre = [proj |-> project, out |-> output]]
    /\ UNCHANGED <<template, runs, calls, fetch>>
    /\ UNCHANGED batchVars

NextSingle == SingleRun

SpecSingle == InitSingle /\ [][NextSingle]_vars

(***************************************************************************)
(* SpecFetch: one call of fetch_gitignore.                                 *)
(***************************************************************************)
\* Most entries the cache directory holds.
MaxCacheFiles == 2

\* The names an entry of the cache directory may have, the type tags and
\* the catalogs of the remote.
CacheNames == {<<"A", ".", "g">>, <<"a", ".", "g">>, <<"a", ".", "G">>, <<"b", ".", "g">>}

TypeTags == {<<"A">>, <<"a">>, <<"b">>}

Catalogs == {<<>>, << <<"A">> >>, << <<"b">> >>, << <<"b">>, <<"a">>, <<"A">> >>}

CacheEntries ==
    {[kind |-> "dir", read |-> "oserror"]}
        \cup {[kind |-> "file", read |-> r] : r \in {"ok", "oserror", "decode"}}

Caches ==
    UNION {[names -> CacheEntries] :
              names \in {S \in SUBSET CacheNames : Cardinality(S) <= MaxCacheFiles}}

\* What the environment may answer to a call; an answer nothing asks for
\* is left at its calm value.
FetchEnvs(cacheKind, cache) ==
    { env \in [mkdir : {"ok", "raise"}, iter : {"ok", "oserror"},
               listing : Orders(DOMAIN cache),
               catalog : {"ok", "error"}, detail : {"ok", "error"},
               source : BOOLEAN] :
        /\ (cacheKind # "absent") => (env.mkdir = "ok")
        /\ (env.catalog = "error") => (env.detail = "ok")
        /\ (env.detail = "error" \/ env.catalog = "error") => env.source }

InitFetch ==
    /\ \E tag \in TypeTags, allow \in BOOLEAN, kind \in {"absent", "file", "dir"},
          cache \in Caches, catalog \in Catalogs :
         /\ (kind # "dir") => (cache = <<>>)
         /\ fetch = [IdleFetch EXCEPT !.pc = "start", !.project_type = tag,
                                      !.allow = allow, !.cacheKind = kind,
                                      !.cache = cache, !.catalog = catalog]
    /\ project = Fresh
    /\ template = None
    /\ runs = <<>>
    /\ output = IdleOutput
    /\ calls = <<>>
    /\ single = IdleSingle
    /\ BatchIdle

\* fetch_gitignore(project_type, allow)
FetchCall ==
    /\ fetch.pc = "start"
    /\ \E env \in FetchEnvs(fetch.cacheKind, fetch.cache) :
         LET r == fetch_gitignore(fetch.project_type, fetch.allow, fetch.cacheKind,
                                  fetch.cache, fetch.catalog, env)
         IN  fetch' = [fetch EXCEPT
                         !.pc = "done", !.env = env, !.result = r,
                         !.cacheKind = IF @ = "absent" /\ env.mkdir = "ok"
                                       THEN "dir" ELSE @]
    /\ UNCHANGED <<project, template, runs, output, calls, single>>
    /\ UNCHANGED batchVars

NextFetch == FetchCall

SpecFetch == InitFetch /\ [][NextFetch]_vars

(***************************************************************************)
(* Claims about convert (SpecConvert).                                     *)
(***************************************************************************)
Range(seq) == {seq[i] : i \in DOMAIN seq}

\* The run did nothing: no operation invoked, the project left as it was.
NoOp(run) == run.ops = <<>> /\ run.post = run.pre

\* C1, as stated: for every project state and every non-empty template,
\* two runs in succession both return success and the second is a no-op.
C1_Original ==
    (Len(runs) >= 2 /\ ~Falsy(template)) =>
        /\ runs[1].status = "ok"
        /\ runs[2].status = "ok"
        /\ NoOp(runs[2])

\* C1, amended: for every non-empty template and every project whose .git
\* is absent or a directory, a run that returns success is followed by a
\* run that returns success ("already initialized") and is a no-op.
C1_Idempotent ==
    \A i \in 1..(Len(runs) - 1) :
        (~Falsy(template) /\ runs[i].pre.git # "file" /\ runs[i].status = "ok") =>
            /\ runs[i + 1].status = "ok"
            /\ runs[i + 1].msg = "already initialized"
            /\ NoOp(runs[i + 1])

\* C1 witness: a directory that was no repository is converted by the first
\* run (all six steps), and the second run is the no-op.
C1_Witness ==
    /\ Len(runs) = 2
    /\ runs[1].pre.git = "absent"
    /\ runs[1].status = "ok"
    /\ Len(runs[1].ops) = 6
    /\ runs[2].status = "ok"
    /\ NoOp(runs[2])

\* C2, as stated: a run treats the project as Converted (returns success
\* "already initialized" without acting) if and only if the project is a
\* repository and HEAD holds the ignore file.
C2_ConvertedIffCommitted ==
    \A i \in DOMAIN runs :
        ~Falsy(template) =>
            ((runs[i].status = "ok" /\ runs[i].msg = "already initialized" /\ NoOp(runs[i]))
              <=> (is_git_repo(runs[i].pre) /\ "ignore" \in runs[i].pre.committed))

(***************************************************************************)
(* Claims about clone_project (SpecClone).                                 *)
(***************************************************************************)
\* Something of the output path as it was before the call is still there.
Leftover(pre, post) ==
    \/ pre.kind \in {"file", "link"} /\ post.kind = pre.kind
    \/ pre.files \cap post.files # {}

\* C6, as stated: force=false against an existing output path always fails
\* with "Output path already exists" and changes nothing, whatever the
\* source project.
C6_Original ==
    \A i \in DOMAIN calls :
        (~calls[i].force /\ Exists(calls[i].pre)) =>
            /\ calls[i].status = "fail"
            /\ calls[i].msg = "Output path already exists"
            /\ calls[i].post = calls[i].pre
            /\ calls[i].ops = <<>>

\* C6, amended: force=false against an existing output path always fails
\* and removes or changes nothing (no rmtree, no mkdir, no git clone); the
\* error is "Output path already exists" when the source is a repository
\* and "is not a git repository" when it is not.
C6_RefusesExisting ==
    \A i \in DOMAIN calls :
        (~calls[i].force /\ Exists(calls[i].pre)) =>
            /\ calls[i].status = "fail"
            /\ calls[i].msg = IF is_git_repo(project)
                              THEN "Output path already exists"
                              ELSE "is not a git repository"
            /\ calls[i].post = calls[i].pre
            /\ calls[i].ops = <<>>

\* C6 witness: a repository refused onto a directory that holds files.
C6_Witness ==
    \E i \in DOMAIN calls :
        /\ ~calls[i].force
        /\ is_git_repo(project)
        /\ calls[i].pre.kind = "dir"
        /\ calls[i].pre.files # {}
        /\ calls[i].msg = "Output path already exists"

\* C7, as stated: force=true against an existing output path leaves nothing
\* of the prior output path behind, whatever the source project and
\* whatever the kind of the existing path.
C7_Original ==
    \A i \in DOMAIN calls :
        (calls[i].force /\ Exists(calls[i].pre)) => ~Leftover(calls[i].pre, calls[i].post)

\* C7, amended: with force=true against an existing output path, when the
\* source is a repository the removal is the first thing done; git clone is
\* invoked only after the removal returned, onto a path of which nothing is
\* left; something of the prior path is left only when the source is not a
\* repository (the call fails, nothing invoked) or when the removal raised
\* (a regular file, a symbolic link, an error part way).
C7_RemovesBeforeClone ==
    \A i \in DOMAIN calls :
        (calls[i].force /\ Exists(calls[i].pre)) =>
            /\ is_git_repo(project) => (calls[i].ops # <<>> /\ Head(calls[i].ops) = "rmtree")
            /\ "clone" \in Range(calls[i].ops) =>
                  /\ calls[i].ops = <<"rmtree", "mkdir", "clone">>
                  /\ calls[i].post.files = {}
                  /\ ~Leftover(calls[i].pre, calls[i].post)
            /\ Leftover(calls[i].pre, calls[i].post) =>
                  \/ ~is_git_repo(project) /\ calls[i].status = "fail" /\ calls[i].ops = <<>>
                  \/ calls[i].status = "raise" /\ calls[i].ops = <<"rmtree">>

\* C7 witness: a directory holding files is removed and the clone made.
C7_Witness ==
    \E i \in DOMAIN calls :
        /\ calls[i].force
        /\ calls[i].pre.kind = "dir"
        /\ calls[i].pre.files # {}
        /\ calls[i].status = "ok"
        /\ calls[i].post.cloned
        /\ calls[i].post.files = {}

(***************************************************************************)
(* Claims about the batch orchestrator (SpecBatch).                        *)
(***************************************************************************)
\* The projects handed to the pool.
Dispatched == Range(main.todo)

\* main has logged "Execution Complete: X/N projects processed successfully".
SummaryProduced == main.pc = "done"

\* Neither the project directory of n nor what stands at output_dir/n has
\* changed since the batch started.
Untouched(n) ==
    /\ world.projs[n] = initial.projs[n]
    /\ world.outs[n].kind = initial.outs[n].kind
    /\ world.outs[n].files = initial.outs[n].files
    /\ world.outs[n].cloned = initial.outs[n].cloned
    /\ world.entries[n] = initial.entries[n]

\* C3, as stated: whatever fails in the processing of one project (a
\* non-zero exit, a tool that cannot be launched, a write error), when main
\* is through with the pool every dispatched project has returned an
\* outcome record and the summary has been produced.
C3_FailureIsolation ==
    (main.pc \in {"done", "crashed"} /\ main.todo # <<>>) =>
        /\ \A n \in Dispatched : task[n].pc \in TaskReturns
        /\ SummaryProduced

\* C4: an outcome with success=true implies that convert returned success,
\* clone_project returned success, the project path is a repository with an
\* ignore file present, and a clone stands at output_dir/name.
C4_SuccessImpliesConvertedAndCloned ==
    \A n \in NamePool :
        Success(task[n].pc) =>
            /\ task[n].convert = "ok"
            /\ task[n].clone = "ok"
            /\ is_git_repo(world.projs[n])
            /\ has_gitignore(world.projs[n])
            /\ world.layout = "disjoint"
            /\ world.outs[n].kind = "dir"
            /\ world.outs[n].cloned

\* C4 witness: a directory that was no repository is reported a success,
\* and the summary counts it.
C4_Witness ==
    \E n \in NamePool :
        /\ Success(task[n].pc)
        /\ initial.projs[n] = Fresh
        /\ main.pc = "done"
        /\ main.summary.successful >= 1

\* C5: on a project whose name equals an entry of the --blacklist argument
\* once the entry is trimmed, neither convert nor clone_project is ever
\* invoked, nothing is changed, and it is not among the projects handed to
\* the pool (no outcome, not counted in N).
C5_BlacklistedUntouched ==
    \A n \in args.excluded :
        /\ task[n] = IdleTask
        /\ Untouched(n)
        /\ n \notin Dispatched
        /\ ProjectPath(n) \notin written
        /\ TargetPath(world, n) \notin written
        /\ SummaryProduced =>
              main.summary.total <=
                  Cardinality({m \in NamePool \ args.excluded : world.entries[m] = "dir"})

\* C5 witness: the batch is through, "A" is a project directory matched
\* only thanks to the trimming of its entry, and the other project was
\* processed.
C5_Witness ==
    /\ main.pc = "done"
    /\ <<"A">> \in args.excluded
    /\ world.entries[<<"A">>] = "dir"
    /\ \E i \in DOMAIN args.blacklist_list :
         args.blacklist_list[i] # strip(args.blacklist_list[i])
    /\ main.summary.total = 1

\* Something stood at output_dir/n when the batch started.
PreExisting(n) == Exists(TargetState(initial, n))

C9_InvalidProjectsDir ==
    ~(initial.projectsDir = "dir") =>
        /\ main.pc \in {"start", "exit"}
        /\ main.pc = "exit" => main.exit = 1
        /\ world = initial
        /\ main.content = Unfetched
        /\ main.todo = <<>>
        /\ \A n \in NamePool : task[n] = IdleTask
        /\ written = {}

\* C9 witness: the batch has exited on a projects_dir that is a file, the
\* output directory and the cache directory still missing.
C9_Witness ==
    /\ main.pc = "exit"
    /\ initial.projectsDir = "file"
    /\ world.outDir = "absent"
    /\ ~world.cache

\* C10: when the template fetch returned None or the empty text, the batch
\* only exits, with code 1: nothing is enumerated, no task is handed to a
\* worker, no project is converted or cloned.
C10_NoTemplate ==
    (main.content # Unfetched /\ Falsy(main.content)) =>
        /\ main.pc \in {"check", "exit"}
        /\ main.pc = "exit" => main.exit = 1
        /\ main.todo = <<>>
        /\ \A n \in NamePool : task[n] = IdleTask /\ Untouched(n)
        /\ written = {}

\* C10 witness: the batch has exited on an empty template text although
\* projects_dir holds a project.
C10_Witness ==
    /\ main.pc = "exit"
    /\ main.content = ""
    /\ \E n \in NamePool : world.entries[n] = "dir"

\* main has ended: sys.exit, the end of main(), or an uncaught exception.
Ended == main.pc \in {"exit", "done", "crashed"}

\* main got as far as listing projects_dir (batch:184).
Enumerated ==
    \/ main.pc \in {"pool", "done"}
    \/ main.pc = "exit" /\ main.exit = 0
    \/ main.pc = "crashed" /\ main.todo # <<>>

\* The projects for which process_single_project returned an outcome.
WithOutcome == {n \in NamePool : task[n].pc \in TaskReturns}

\* The entries of projects_dir that are directories and whose name equals
\* no entry of the --blacklist argument once the entry is trimmed.
Candidates == {n \in NamePool \ args.excluded : world.entries[n] = "dir"}

\* C11, as stated: once a batch that listed projects_dir has ended, exactly
\* the non-blacklisted subdirectories of projects_dir have an outcome, and
\* when there is one at least the summary X/N has been produced with N the
\* number of outcomes and X the number of outcomes with success=true,
\* whatever the order in which the workers ended.
C11_OneOutcomePerProject ==
    (Ended /\ Enumerated) =>
        /\ WithOutcome = Candidates
        /\ Candidates # {} =>
              /\ SummaryProduced
              /\ main.summary.total = Cardinality(WithOutcome)
              /\ main.summary.successful =
                    Cardinality({n \in WithOutcome : Success(task[n].pc)})

\* C12, as stated: a batch that has ended has exit code 1 exactly when
\* projects_dir was missing or no directory, or the template fetched was
\* unresolved, and exit code 0 in every other case.
C12_ExitCodes ==
    Ended =>
        /\ main.exit \in {0, 1}
        /\ (main.exit = 1) <=>
              \/ ~ValidProjectsDir(initial.projectsDir)
              \/ main.content # Unfetched /\ Unresolved(main.content)

(***************************************************************************)
(* Claims about single-project mode (SpecSingle).                          *)
(***************************************************************************)
\* C13, as stated: a run of single-project mode invokes clone only after
\* convert returned, exits with 0 or 1, with 0 exactly when both steps were
\* invoked and succeeded; and on a valid project directory (a directory with
\* files that is no repository), a free output path and tools that all
\* succeed, the run ends with exit code 0, the project converted and cloned.
C13_SingleMode ==
    single.pc = "ended" =>
        /\ single.ops \in {<<>>, <<"convert">>, <<"convert", "clone">>}
        /\ single.exit \in {0, 1}
        /\ single.exit = 0 =>
              /\ single.ops = <<"convert", "clone">>
              /\ is_git_repo(project) /\ has_gitignore(project)
              /\ output.cloned
        /\ ( /\ single.dir = "dir"
             /\ single.pre.proj = Fresh
             /\ single.pre.out = IdleOutput
             /\ single.tools = "ok" ) =>
              /\ single.exit = 0
              /\ single.ops = <<"convert", "clone">>

(***************************************************************************)
(* Claims about the template provider (SpecFetch).                         *)
(***************************************************************************)
\* Equal but for the case of the letters.
SameLetters(x, y) ==
    /\ Len(x) = Len(y)
    /\ \A i \in 1..Len(x) :
         x[i] = y[i] \/ {x[i], y[i]} \in {{"A", "a"}, {"G", "g"}}

\* The files of the cache named '{typeTag}.gitignore', case-insensitively,
\* and the templates of the catalog named as the tag, case-insensitively.
Matching ==
    {name \in DOMAIN fetch.cache :
        /\ fetch.cache[name].kind = "file"
        /\ SameLetters(name, fetch.project_type \o <<".", "g">>)}

RemoteMatches ==
    {t \in Range(fetch.catalog) : SameLetters(t, fetch.project_type)}

\* A call to the remote was made and failed.
RemoteFailed ==
    \/ "catalog" \in Range(fetch.result.calls) /\ fetch.env.catalog = "error"
    \/ "detail" \in Range(fetch.result.calls) /\ fetch.env.detail = "error"

ReturnsNull == fetch.result.status = "return" /\ fetch.result.value = NoTemplate

\* C14, as stated: when the cache holds a file matching the tag its text is
\* returned and the remote is never queried; the remote is queried only
\* when no local file matches and allowRemote is true; the result is null
\* when nothing matches at either tier or a remote call fails.
C14_Original ==
    fetch.pc = "done" =>
        /\ Matching # {} =>
              /\ fetch.result.status = "return"
              /\ \E name \in Matching : fetch.result.value = LocalText(name)
              /\ fetch.result.calls = <<>>
        /\ fetch.result.calls # <<>> => (Matching = {} /\ fetch.allow)
        /\ ((Matching = {} /\ RemoteMatches = {}) \/ RemoteFailed) => ReturnsNull

\* The matching file that is listed first.
FirstMatching ==
    LET i == CHOOSE i \in DOMAIN fetch.env.listing :
                 /\ fetch.env.listing[i] \in Matching
                 /\ \A j \in 1..(i - 1) : fetch.env.listing[j] \notin Matching
    IN  fetch.env.listing[i]

\* What the local tier came to: "ok" (a text was read), "decode" (the
\* matching file cannot be decoded), or no text: "nomatch", "oserror".
LocalTier ==
    IF fetch.env.iter = "oserror" THEN "oserror"
    ELSE IF Matching = {} THEN "nomatch"
    ELSE fetch.cache[FirstMatching].read

\* What fetch_gitignore does, case by case (it holds in every state of
\* SpecFetch): the call raises when the cache directory cannot be made
\* (its path is a file, the creation fails) or when the matching file
\* listed first cannot be decoded; when that file is read, its text is
\* returned and the remote is never queried; an OSError while listing or
\* reading is swallowed and counts as no local match.  The remote catalog
\* is queried only when the local tier gave no text and allowRemote is
\* true, and then always; the template detail is fetched only for a catalog
\* entry matching the tag.  The result is null when the local tier gave no
\* text and allowRemote is false, the catalog has no match, or a remote call
\* fails; a text returned from the remote is the source of a matching entry.
FetchBehaviour ==
    fetch.pc = "done" =>
        IF fetch.cacheKind # "dir"
        THEN fetch.result.status = "raise" /\ fetch.result.calls = <<>>
        ELSE /\ LocalTier = "ok" =>
                   /\ fetch.result.status = "return"
                   /\ fetch.result.value = LocalText(FirstMatching)
                   /\ fetch.result.calls = <<>>
             /\ LocalTier = "decode" =>
                   fetch.result.status = "raise" /\ fetch.result.calls = <<>>
             /\ fetch.result.calls # <<>> <=>
                   (fetch.allow /\ LocalTier \in {"nomatch", "oserror"})
             /\ fetch.result.calls \in {<<>>, <<"catalog">>, <<"catalog", "detail">>}
             /\ "detail" \in Range(fetch.result.calls) <=>
                   /\ fetch.allow /\ LocalTier \in {"nomatch", "oserror"}
                   /\ fetch.env.catalog = "ok" /\ RemoteMatches # {}
             /\ LocalTier \in {"nomatch", "oserror"} =>
                   /\ fetch.result.status = "return"
                   /\ (~fetch.allow \/ RemoteMatches = {} \/ RemoteFailed) => ReturnsNull
                   /\ ~ReturnsNull =>
                         \E t \in RemoteMatches : fetch.result.value = RemoteSource(t)

\* The local tier at work: with allowRemote true and a catalog that holds
\* the tag, the text of a cache file whose name differs from '{typeTag}.gitignore' in
\* case is returned, and no remote call is made.
FetchLocalHit ==
    /\ fetch.pc = "done"
    /\ fetch.allow
    /\ RemoteMatches # {}
    /\ Matching # {}
    /\ fetch.project_type \o <<".", "g">> \notin Matching
    /\ fetch.result.status = "return"
    /\ fetch.result.value = LocalText(FirstMatching)
    /\ fetch.result.calls = <<>>

(***************************************************************************)
(* Claims about the steps of convert (SpecConvert).                        *)
(***************************************************************************)
\* The order claimed for a project that is no repository, and the error a
\* step returns when it exits non-zero.
ClaimedOrder ==
    <<"init", "write", "add_ignore", "commit_ignore", "add_all", "commit_all">>

ClaimedError ==
    [init |-> "Failed to initialize git", write |-> "none",
     add_ignore |-> "Failed to add .gitignore",
     commit_ignore |-> "Failed to commit .gitignore",
     add_all |-> "Failed to add files", commit_all |-> "Failed to commit files"]

\* Step number j of the run was invoked and succeeded.
Succeeded(run, j) == j < Len(run.ops) \/ (j = Len(run.ops) /\ run.status = "ok")

\* C15: a run on a project that is no repository invokes the steps init,
\* write, add .gitignore, commit, add all, commit in that order, each only
\* after every earlier one succeeded; the run returns success only after
\* all six; the first step that fails is the last one invoked and its error
\* is what the run ends with (the message of that step, or the exception it
\* raised); what the earlier steps did stays: the repository initialized,
\* the ignore file written with the template text, the ignore file staged
\* or committed, the files staged.
C15_InitSequence ==
    \A i \in DOMAIN runs :
        (~Falsy(template) /\ ~is_git_repo(runs[i].pre)) =>
            LET run == runs[i]
                k == Len(run.ops)
            IN  /\ k \in 1..6
                /\ \A j \in 1..k : run.ops[j] = ClaimedOrder[j]
                /\ run.status = "ok" => k = 6
                /\ run.status = "fail" => run.msg = ClaimedError[run.ops[k]]
                /\ run.status \in {"ok", "fail", "raise"}
                /\ ~Succeeded(run, 1) => run.post = run.pre
                /\ Succeeded(run, 1) => run.post.git # "absent"
                /\ ~Succeeded(run, 2) =>
                      /\ run.post.ignore = run.pre.ignore
                      /\ run.post.content = run.pre.content
                /\ Succeeded(run, 2) =>
                      /\ run.post.ignore = "file"
                      /\ run.post.content = template
                /\ (Succeeded(run, 3) /\ ~Succeeded(run, 4)) => "ignore" \in run.post.staged
                /\ ~Succeeded(run, 3) => run.post.staged = run.pre.staged
                /\ Succeeded(run, 4) => "ignore" \in run.post.committed
                /\ ~Succeeded(run, 4) => run.post.committed = run.pre.committed
                /\ (Succeeded(run, 5) /\ ~Succeeded(run, 6) /\ run.pre.hasFiles) =>
                      "files" \in run.post.staged
                /\ Succeeded(run, 6) =>
                      /\ run.post.staged = {}
                      /\ run.pre.hasFiles => "files" \in run.post.committed

\* C15 witness: on a directory that is no repository the commit of the
\* ignore file exits non-zero: four steps invoked, the repository and the
\* staged ignore file left behind.
C15_Witness ==
    \E i \in DOMAIN runs :
        /\ runs[i].pre.git = "absent"
        /\ runs[i].ops = <<"init", "write", "add_ignore", "commit_ignore">>
        /\ runs[i].status = "fail"
        /\ runs[i].msg = "Failed to commit .gitignore"
        /\ runs[i].post.git = "dir"
        /\ runs[i].post.ignore = "file"
        /\ "ignore" \in runs[i].post.staged

\* C17: when a run on a repository without ignore file wrote the ignore
\* file and then failed to stage or commit it, every later run (same
\* template) returns success "already initialized" without invoking
\* anything: the commit is never attempted again, and HEAD stays as the
\* failed run left it.
C17_FailedCommitNeverRetried ==
    \A i \in DOMAIN runs : \A j \in DOMAIN runs :
        ( /\ i < j
          /\ ~Falsy(template)
          /\ runs[i].pre.git = "dir"
          /\ runs[i].pre.ignore = "absent"
          /\ Len(runs[i].ops) >= 2
          /\ runs[i].status # "ok" ) =>
            /\ runs[j].pre.ignore = "file"
            /\ runs[j].status = "ok"
            /\ runs[j].msg = "already initialized"
            /\ NoOp(runs[j])
            /\ runs[j].post.committed = runs[i].post.committed

\* C17 witness: the commit of the ignore file exits non-zero in the first
\* run; the second run reports success although HEAD does not hold the
\* ignore file.
C17_Witness ==
    /\ Len(runs) >= 2
    /\ runs[1].pre.git = "dir"
    /\ runs[1].pre.ignore = "absent"
    /\ runs[1].ops = <<"write", "add_ignore", "commit_ignore">>
    /\ runs[1].status = "fail"
    /\ runs[2].status = "ok"
    /\ "ignore" \notin runs[2].post.committed

\* What enters the index and HEAD during a run.
NewlyStaged(run) == run.post.staged \ run.pre.staged

NewlyCommitted(run) == run.post.committed \ run.pre.committed

\* "git add ." and the commit "Initial commit" are invoked only by a run
\* that found no repository and started with init.
InitialCommitOnlyWithInit(run) ==
    ({"add_all", "commit_all"} \cap Range(run.ops) # {}) =>
        /\ run.pre.git # "dir"
        /\ Head(run.ops) = "init"

\* C18, as stated: staging all files and "Initial commit" happen only in a
\* run that found no repository and performed init; a run that finds a
\* repository stages and commits at most the ignore file, never the
\* remaining project files.
C18_Original ==
    \A i \in DOMAIN runs :
        ~Falsy(template) =>
            /\ InitialCommitOnlyWithInit(runs[i])
            /\ runs[i].pre.git = "dir" =>
                  /\ NewlyStaged(runs[i]) \subseteq {"ignore"}
                  /\ NewlyCommitted(runs[i]) \subseteq {"ignore"}

\* C18, amended: staging all files and "Initial commit" happen only in a
\* run that found no repository and performed init; a run that finds a
\* repository invokes at most the write, "git add .gitignore" and the
\* commit "Add .gitignore", in that order, and stages nothing but the
\* ignore file; that commit records the whole index, so that project files
\* enter HEAD with it only when they were staged already before the first
\* run: no run leaves project files staged in a repository that has no
\* ignore file.
C18_OnlyIgnoreFileInRepository ==
    \A i \in DOMAIN runs :
        ~Falsy(template) =>
            /\ InitialCommitOnlyWithInit(runs[i])
            /\ runs[i].pre.git = "dir" =>
                  /\ runs[i].ops \in {<<>>, <<"write">>, <<"write", "add_ignore">>,
                                      <<"write", "add_ignore", "commit_ignore">>}
                  /\ NewlyStaged(runs[i]) \subseteq {"ignore"}
                  /\ NewlyCommitted(runs[i]) \subseteq {"ignore"} \cup runs[i].pre.staged
                  /\ "files" \in NewlyCommitted(runs[i]) =>
                        /\ runs[1].pre.git = "dir"
                        /\ "files" \in runs[1].pre.staged

\* C18 witness: the first run initializes the repository and fails at the
\* commit of the ignore file; the second run finds a repository and
\* invokes nothing: the project files are neither staged nor committed.
C18_Witness ==
    /\ Len(runs) >= 2
    /\ runs[1].pre.git = "absent"
    /\ runs[1].pre.hasFiles
    /\ runs[1].ops = <<"init", "write", "add_ignore", "commit_ignore">>
    /\ runs[1].status = "fail"
    /\ runs[2].pre.git = "dir"
    /\ runs[2].ops = <<>>
    /\ "files" \notin runs[2].post.staged \cup runs[2].post.committed

(***************************************************************************)
(* Claims about the processing of one project in a batch (SpecBatch).      *)
(***************************************************************************)
\* The transitions of the claimed state machine: Pending is "pending",
\* Eligible "eligible", ConvertOk "convert_ok" (and "cloning" once the
\* output check passed), and the terminal states Skipped
\* ("skipped_blacklist", "skipped_exists"), ConvertFailed, CloneFailed, Done.
ClaimedTransitions ==
    {<<"idle", "pending">>,
     <<"pending", "skipped_blacklist">>, <<"pending", "eligible">>,
     <<"eligible", "convert_failed">>, <<"eligible", "convert_ok">>,
     <<"convert_ok", "skipped_exists">>, <<"convert_ok", "cloning">>,
     <<"cloning", "clone_failed">>, <<"cloning", "done">>}

\* convert is invoked only past the blacklist check, the output check and
\* clone are reached only after convert returned success, and success=true
\* goes with Done only.
ClaimedOrdering ==
    \A n \in NamePool :
        /\ task[n].convert # "none" =>
              task[n].pc \notin {"idle", "pending", "skipped_blacklist", "eligible"}
        /\ task[n].pc \in {"convert_ok", "skipped_exists", "cloning", "clone_failed", "done"}
              => task[n].convert = "ok"
        /\ task[n].clone # "none" => task[n].convert = "ok"
        /\ Success(task[n].pc) <=> task[n].pc = "done"

\* C16, as stated: the processing of a project takes only the transitions
\* of the claimed state machine, in the claimed order, so that every
\* processed project ends in one of Skipped, ConvertFailed, CloneFailed,
\* Done.
C16_StateMachine ==
    /\ []ClaimedOrdering
    /\ [][\A n \in NamePool :
            task'[n].pc # task[n].pc =>
                <<task[n].pc, task'[n].pc>> \in ClaimedTransitions]_vars

\* C19, as stated: the summary is produced only after every dispatched
\* project has reached a terminal state, and, no call hanging, once the
\* projects are dispatched the batch eventually produces the summary (every
\* dispatched project having reached a terminal state by then), whatever
\* the number of workers.
C19_SummaryEventually ==
    /\ [](SummaryProduced => \A n \in Dispatched : task[n].pc \in TaskReturns)
    /\ (main.pc = "pool") ~> SummaryProduced

(***************************************************************************)
(* Claims about the workers of a batch (SpecNested).                       *)
(***************************************************************************)
\* The path is dir or lies inside dir.
Within(path, dir) ==
    /\ Len(dir) <= Len(path)
    /\ SubSeq(path, 1, Len(dir)) = dir

\* The worker of n changed something inside the project directory or the
\* clone target of m.
WroteInside(n, m) ==
    \E path \in task[n].wrote :
        \/ Within(path, ProjectPath(m))
        \/ Within(path, TargetPath(world, m))

\* Each project is listed once in what main hands to the pool.
ProcessedOnce ==
    \A i \in DOMAIN main.todo : \A j \in DOMAIN main.todo :
        main.todo[i] = main.todo[j] => i = j

EmptyTemplate == "Gitignore content is empty."

\* C21: a run of convert with an empty template text fails with the
\* EmptyTemplate error whatever the state of the project (repository or not,
\* ignore file or not) and invokes no step: no init, no write of the ignore
\* file, no add, no commit; the project is left as it was.
C21_EmptyTemplateFailsFirst ==
    \A i \in DOMAIN runs :
        template = "" =>
            /\ runs[i].status = "fail"
            /\ runs[i].msg = EmptyTemplate
            /\ runs[i].ops = <<>>
            /\ runs[i].post = runs[i].pre

\* C21 witness: the empty text was passed twice, to a repository that has
\* an ignore file: both runs failed with EmptyTemplate.
C21_Witness ==
    /\ template = ""
    /\ Len(runs) = 2
    /\ is_git_repo(project) /\ has_gitignore(project)
    /\ \A i \in DOMAIN runs : runs[i].status = "fail" /\ runs[i].msg = EmptyTemplate

(***************************************************************************)
(* The source of a clone that is no repository.                            *)
(***************************************************************************)
\* C22: clone_project called on a source that is_git_repo does not accept
\* fails with "is not a git repository", for either value of force and
\* whatever is at the output path: nothing is removed from the output path,
\* its parent directory is not created and git clone is not invoked.
C22_SourceVerifiedFirst ==
    \A i \in DOMAIN calls :
        ~is_git_repo(project) =>
            /\ calls[i].status = "fail"
            /\ calls[i].msg = "is not a git repository"
            /\ calls[i].ops = <<>>
            /\ calls[i].post = calls[i].pre

\* C22 witness: the source is no repository and clone_project was called
\* with force onto a directory that holds files: the call failed and the
\* directory and its files are where they were.
C22_Witness ==
    /\ ~is_git_repo(project)
    /\ \E i \in DOMAIN calls :
          /\ calls[i].force
          /\ calls[i].pre.kind = "dir"
          /\ calls[i].pre.files = PriorFiles
          /\ calls[i].status = "fail"
          /\ calls[i].post = calls[i].pre

\* A second case of C22: without force, the path and its parent absent, the
\* parent is still absent after the call.
MissingParentStays ==
    /\ ~is_git_repo(project)
    /\ \E i \in DOMAIN calls :
          /\ calls[i].pre.parent = "absent"
          /\ calls[i].post.parent = "absent"

(***************************************************************************)
(* The content of the ignore file.                                         *)
(***************************************************************************)
\* The run found an ignore file in the project.
HadIgnoreFile(run) == run.pre.ignore = "file"

\* The ignore file is there with the text it had before the run.
ContentKept(run) ==
    /\ run.post.ignore = run.pre.ignore
    /\ run.post.content = run.pre.content

\* The ignore file holds the template text after the run.
HoldsTemplate(run) ==
    /\ run.post.ignore = "file"
    /\ run.post.content = template

\* A run on a repository leaves an ignore file it finds as it is.
KeptInRepository ==
    \A i \in DOMAIN runs :
        (is_git_repo(runs[i].pre) /\ HadIgnoreFile(runs[i])) => ContentKept(runs[i])

\* A successful run that wrote the ignore file leaves the template text in it.
WrittenIsTemplate ==
    \A i \in DOMAIN runs :
        (runs[i].status = "ok" /\ "write" \in Range(runs[i].ops)) => HoldsTemplate(runs[i])

\* C23, as stated: a run never changes the content of an ignore file found
\* in a repository; in a project that is no repository an ignore file found
\* there holds the template text after every run whose init succeeded; after
\* a successful run that wrote the ignore file its content is the template
\* text.
C23_Original ==
    /\ KeptInRepository
    /\ WrittenIsTemplate
    /\ \A i \in DOMAIN runs :
          (~is_git_repo(runs[i].pre) /\ HadIgnoreFile(runs[i]) /\ Succeeded(runs[i], 1)) =>
              HoldsTemplate(runs[i])

\* C23, amended: as stated, except that in a project that is no repository
\* the ignore file found there holds the template text only when the write
\* that follows the successful init returned: once init succeeded the write
\* is the next step invoked, whatever the file holds, and the file holds the
\* template text when that write succeeded; when init did not succeed the
\* file is as it was.
C23_IgnoreFileContent ==
    /\ KeptInRepository
    /\ WrittenIsTemplate
    /\ \A i \in DOMAIN runs :
          (~is_git_repo(runs[i].pre) /\ HadIgnoreFile(runs[i]) /\ ~Falsy(template)) =>
              /\ Succeeded(runs[i], 1) =>
                    /\ Len(runs[i].ops) >= 2
                    /\ runs[i].ops[2] = "write"
              /\ Succeeded(runs[i], 2) => HoldsTemplate(runs[i])
              /\ ~Succeeded(runs[i], 1) => ContentKept(runs[i])

\* C23 witness: the first run found a directory that is no repository with
\* an ignore file of another text and replaced the text with the template
\* text while converting; the second run found the repository with its
\* ignore file and left the file as it was.
C23_Witness ==
    /\ Len(runs) = 2
    /\ ~is_git_repo(runs[1].pre)
    /\ runs[1].pre.content = "OLD"
    /\ template = "T2"
    /\ runs[1].status = "ok"
    /\ runs[1].post.content = "T2"
    /\ is_git_repo(runs[2].pre)
    /\ runs[2].status = "ok"
    /\ runs[2].ops = <<>>
    /\ runs[2].post.content = "T2"

=============================================================================
